---- MODULE Spec2Model ----
(***************************************************************************)
(* Model of pop-common's sourcing::binary::Binary                          *)
(* (crates/pop-common/src/sourcing/binary.rs): the binary identity         *)
(* (Local / Source), its cache path, version, staleness and use_latest,    *)
(* the version ordering compare_versions and the resolver resolve_version. *)
(*                                                                         *)
(* Strings (String, &str, PathBuf of a single cache directory) are         *)
(* sequences of one-character strings; Option<T> is a sequence of length   *)
(* 0 (None) or 1 (Some(x)).                                                *)
(***************************************************************************)
EXTENDS Integers, Sequences, FiniteSets, TLC

VARIABLES binary, fs, last, input, output

vars == <<binary, fs, last, input, output>>

(* ------------------------------ bounds -------------------------------- *)

\* Longest generated version string (on top of the fixed fixtures).
MaxLen == 2

\* Longest list of available versions handed to resolve_version.
MaxAvail == 3

(* ------------------------------ Option -------------------------------- *)

None == <<>>

Some(x) == <<x>>

is_some(o) == Len(o) = 1

unwrap(o) == o[1]

(* ------------------------------ strings ------------------------------- *)

\* The byte of a character (ASCII), as str::cmp compares strings byte-wise.
Digits == <<"0", "1", "2", "3", "4", "5", "6", "7", "8", "9">>

Letters == <<"a", "b", "c", "d", "e", "f", "g", "h", "i", "j", "k", "l", "m",
             "n", "o", "p", "q", "r", "s", "t", "u", "v", "w", "x", "y", "z">>

IndexOf(seq, c) == CHOOSE i \in 1..Len(seq) : seq[i] = c

IsDigit(c) == \E i \in 1..Len(Digits) : Digits[i] = c

Byte(c) ==
    CASE c = "+" -> 43
      [] c = "-" -> 45
      [] c = "." -> 46
      [] c = "/" -> 47
      [] IsDigit(c) -> 47 + IndexOf(Digits, c)
      [] OTHER -> 96 + IndexOf(Letters, c)

starts_with(s, p) == Len(s) >= Len(p) /\ SubSeq(s, 1, Len(p)) = p

\* &s[n..]
skip(s, n) == SubSeq(s, n + 1, Len(s))

\* impl Ord for str: lexicographic on bytes, a proper prefix is Less.
RECURSIVE str_cmp(_, _)
str_cmp(a, b) ==
    IF a = <<>> /\ b = <<>> THEN "Equal"
    ELSE IF a = <<>> THEN "Less"
    ELSE IF b = <<>> THEN "Greater"
    ELSE IF Byte(a[1]) < Byte(b[1]) THEN "Less"
    ELSE IF Byte(a[1]) > Byte(b[1]) THEN "Greater"
    ELSE str_cmp(Tail(a), Tail(b))

\* str::split(sep).collect(): the segments between separators; never empty.
RECURSIVE split(_, _)
split(s, sep) ==
    IF \A i \in 1..Len(s) : s[i] # sep THEN <<s>>
    ELSE LET i == CHOOSE k \in 1..Len(s) :
                      s[k] = sep /\ \A j \in 1..(k - 1) : s[j] # sep
         IN  <<SubSeq(s, 1, i - 1)>> \o split(skip(s, i), sep)

\* Vec::get(i) with a 0-based index.
get(parts, i) == IF i < Len(parts) THEN Some(parts[i + 1]) ELSE None

\* A u32 is kept as its decimal digits without leading zeros (zero is the
\* empty sequence), so that the whole range of u32 is represented exactly.
RECURSIVE strip_zeros(_)
strip_zeros(s) ==
    IF s # <<>> /\ s[1] = "0" THEN strip_zeros(Tail(s)) ELSE s

\* u32::cmp on two such numbers.
num_cmp(a, b) ==
    IF Len(a) < Len(b) THEN "Less"
    ELSE IF Len(a) > Len(b) THEN "Greater"
    ELSE str_cmp(a, b)

\* u32::MAX = 4294967295
U32Max == <<"4", "2", "9", "4", "9", "6", "7", "2", "9", "5">>

\* version_num / 100
div100(n) == IF Len(n) <= 2 THEN <<>> ELSE SubSeq(n, 1, Len(n) - 2)

\* version_num % 100
mod100(n) == IF Len(n) <= 2 THEN n ELSE strip_zeros(SubSeq(n, Len(n) - 1, Len(n)))

\* str::parse::<u32>().ok(): an optional '+', then one or more decimal
\* digits, with a value that fits u32; anything else is None.
parse_u32(s) ==
    LET body == IF s # <<>> /\ s[1] = "+" THEN Tail(s) ELSE s
    IN  IF body = <<>> \/ \E i \in 1..Len(body) : ~IsDigit(body[i]) THEN None
        ELSE IF num_cmp(strip_zeros(body), U32Max) = "Greater" THEN None
        ELSE Some(strip_zeros(body))

\* Option::and_then
and_then_parse(o) == IF is_some(o) THEN parse_u32(unwrap(o)) ELSE None

(* -------------------------- compare_versions -------------------------- *)

PolkadotStable ==
    <<"p", "o", "l", "k", "a", "d", "o", "t", "-", "s", "t", "a", "b", "l", "e">>

\* parse_version() taking a calendar-style number whole as the major.
parse_version_undivided(v) ==
    IF starts_with(v, <<"v">>) THEN
        LET parts == split(skip(v, 1), ".")
        IN  <<and_then_parse(get(parts, 0)), and_then_parse(get(parts, 1))>>
    ELSE IF starts_with(v, PolkadotStable) THEN
        LET version_num == parse_u32(skip(v, Len(PolkadotStable)))
        IN  IF is_some(version_num)
            THEN <<Some(unwrap(version_num)), Some(<<>>)>>
            ELSE <<None, None>>
    ELSE <<None, None>>

\* The closure parse_version: (Option<u32>, Option<u32>).
parse_version(v) ==
    IF starts_with(v, <<"v">>) THEN
        LET parts == split(skip(v, 1), ".")
        IN  <<and_then_parse(get(parts, 0)), and_then_parse(get(parts, 1))>>
    ELSE IF starts_with(v, PolkadotStable) THEN
        LET version_num == parse_u32(skip(v, Len(PolkadotStable)))
        IN  IF is_some(version_num)
            THEN <<Some(div100(unwrap(version_num))), Some(mod100(unwrap(version_num)))>>
            ELSE <<None, None>>
    ELSE <<None, None>>

\* impl Ord for Option<u32>: None is below every Some.
option_cmp(a, b) ==
    IF is_some(a) /\ is_some(b) THEN num_cmp(unwrap(a), unwrap(b))
    ELSE IF is_some(a) THEN "Greater"
    ELSE IF is_some(b) THEN "Less"
    ELSE "Equal"

\* compare_versions() with the arm for a missing right major giving Less.
compare_versions_lopsided(a, b) ==
    LET pa == parse_version(a)
        pb == parse_version(b)
        a_major == pa[1]
        a_minor == pa[2]
        b_major == pb[1]
        b_minor == pb[2]
    IN  IF is_some(a_major) /\ is_some(b_major) /\ unwrap(a_major) # unwrap(b_major)
            THEN num_cmp(unwrap(a_major), unwrap(b_major))
        ELSE IF is_some(a_major) /\ is_some(b_major) THEN option_cmp(a_minor, b_minor)
        ELSE IF is_some(a_major) THEN "Less"
        ELSE IF is_some(b_major) THEN "Less"
        ELSE str_cmp(a, b)

compare_versions(a, b) ==
    LET pa == parse_version(a)
        pb == parse_version(b)
        a_major == pa[1]
        a_minor == pa[2]
        b_major == pb[1]
        b_minor == pb[2]
    IN  IF is_some(a_major) /\ is_some(b_major) /\ unwrap(a_major) # unwrap(b_major)
            THEN num_cmp(unwrap(a_major), unwrap(b_major))
        ELSE IF is_some(a_major) /\ is_some(b_major) THEN option_cmp(a_minor, b_minor)
        ELSE IF is_some(a_major) THEN "Greater"
        ELSE IF is_some(b_major) THEN "Less"
        ELSE str_cmp(a, b)

\* Ordering::reverse
reverse(o) == IF o = "Less" THEN "Greater" ELSE IF o = "Greater" THEN "Less" ELSE "Equal"

(* --------------------------- version strings -------------------------- *)

\* All strings over an alphabet of at most n characters.
StringsUpTo(alphabet, n) == UNION {[1..k -> alphabet] : k \in 0..n}

V_1_13_0 == <<"v", "1", ".", "1", "3", ".", "0">>

V_1_13_1 == <<"v", "1", ".", "1", "3", ".", "1">>

V_1_12_0 == <<"v", "1", ".", "1", "2", ".", "0">>

V_2 == <<"v", "2">>

Stable2409 == PolkadotStable \o <<"2", "4", "0", "9">>

Stable2407 == PolkadotStable \o <<"2", "4", "0", "7">>

Stable113 == PolkadotStable \o <<"1", "1", "3">>

\* Version strings of the three families (semantic, calendar-style,
\* unparseable), with the corner cases of parse_version.
VersionFixtures ==
    { V_1_13_0, V_1_13_1, V_1_12_0, V_2, Stable2409, Stable2407, Stable113,
      PolkadotStable,
      PolkadotStable \o <<"x">>,
      <<"v", "+", "1", ".", "2">>,
      <<"v", "4", "2", "9", "4", "9", "6", "7", "2", "9", "6", ".", "1">>,
      <<"m", "a", "i", "n">> }

GenAlphabet == {"v", "1", "."}

CmpVersions == VersionFixtures \cup StringsUpTo(GenAlphabet, MaxLen)

(* ------------------------------- paths -------------------------------- *)

\* format!("{name}-{v}")
format_name_version(name, v) == name \o <<"-">> \o v

\* PathBuf::join on Unix: an absolute component replaces the base, otherwise
\* it is appended after a separator (unless the base already ends in one).
join(base, component) ==
    IF starts_with(component, <<"/">>) THEN component
    ELSE IF base = <<>> \/ base[Len(base)] = "/" THEN base \o component
    ELSE base \o <<"/">> \o component

(* --------------------------- resolve_version --------------------------- *)

\* The closure handed to sort_by with its arguments the wrong way round.
ascending(a, b) == compare_versions(a, b)

\* The closure handed to sort_by: |a, b| Self::compare_versions(b, a).
descending(a, b) == compare_versions(b, a)

\* A sorted sequence with x put in after the elements that do not compare
\* Greater than it.
insert_sorted(s, x) ==
    LET greater == {k \in 1..Len(s) : descending(s[k], x) = "Greater"}
        at == IF greater = {} THEN Len(s) + 1
              ELSE CHOOSE k \in greater : \A j \in greater : k <= j
    IN  SubSeq(s, 1, at - 1) \o <<x>> \o SubSeq(s, at, Len(s))

\* versions.sort_by(..): a stable sort, elements that compare Equal keep
\* their order.
RECURSIVE sort_by(_)
sort_by(seq) ==
    IF seq = <<>> THEN <<>>
    ELSE insert_sorted(sort_by(SubSeq(seq, 1, Len(seq) - 1)), seq[Len(seq)])

\* The closure handed to find: whether cache/{name}-{version} exists.
cached(nm, v, cache, files) == join(cache, format_name_version(nm, v)) \in files

\* versions.iter().find(..).cloned(): the first version that is cached.
find(versions, nm, cache, files) ==
    LET hits == {k \in 1..Len(versions) : cached(nm, versions[k], cache, files)}
    IN  IF hits = {} THEN None
        ELSE Some(versions[CHOOSE k \in hits : \A j \in hits : k <= j])

\* slice::first
first(seq) == IF seq = <<>> THEN None ELSE Some(seq[1])

\* resolve_version() that honours a specified version only if it is
\* available.
resolve_version_checked(nm, specified, available, cache, files) ==
    LET versions == sort_by(available)
        found == find(versions, nm, cache, files)
    IN  IF is_some(specified) /\ \E i \in 1..Len(available) : available[i] = unwrap(specified)
        THEN Some(unwrap(specified))
        ELSE IF is_some(found) THEN found ELSE first(versions)

\* resolve_version() that looks for a cached version in the order given.
resolve_version_unsorted_scan(nm, specified, available, cache, files) ==
    IF is_some(specified) THEN Some(unwrap(specified))
    ELSE LET versions == sort_by(available)
             found == find(available, nm, cache, files)
         IN  IF is_some(found) THEN found ELSE first(versions)

\* Binary::resolve_version, files being the paths that exist on disk.
resolve_version(nm, specified, available, cache, files) ==
    IF is_some(specified) THEN Some(unwrap(specified))
    ELSE LET versions == sort_by(available)
             found == find(versions, nm, cache, files)
         IN  IF is_some(found) THEN found ELSE first(versions)

(* ------------------------------- Binary -------------------------------- *)

\* Binary::Local { name, path, manifest }
Local(name, path, manifest) ==
    [variant |-> "Local", name |-> name, path |-> path, manifest |-> manifest]

\* Binary::Source { name, source, cache }
Source(name, source, cache) ==
    [variant |-> "Source", name |-> name, source |-> source, cache |-> cache]

\* Source::Git { url, reference, manifest, package, artifacts }
Git(reference) ==
    [kind |-> "Git", url |-> "url", reference |-> reference, manifest |-> None,
     package |-> "package", artifacts |-> <<"package">>]

\* Source::GitHub(ReleaseArchive { owner, repository, tag, tag_format, archive,
\* contents, latest })
ReleaseArchive(tag, latest) ==
    [kind |-> "ReleaseArchive", owner |-> "owner", repository |-> "repository",
     tag |-> tag, tag_format |-> Some("polkadot-{tag}"), archive |-> "archive",
     contents |-> <<"polkadot">>, latest |-> latest]

\* Source::GitHub(SourceCodeArchive { owner, repository, reference, manifest,
\* package, artifacts })
SourceCodeArchive(reference) ==
    [kind |-> "SourceCodeArchive", owner |-> "owner", repository |-> "repository",
     reference |-> reference, manifest |-> Some("manifest"), package |-> "package",
     artifacts |-> <<"package">>]

\* Source::Archive { url, contents }
Archive == [kind |-> "Archive", url |-> "url", contents |-> <<"polkadot">>]

\* Source::Url { url, name }
Url == [kind |-> "Url", url |-> "url", name |-> "name"]

is_release_archive(b) == b.variant = "Source" /\ b.source.kind = "ReleaseArchive"

\* Binary::latest
latest(b) ==
    IF b.variant = "Local" THEN None
    ELSE IF b.source.kind = "ReleaseArchive" THEN b.source.latest
    ELSE None

\* Binary::local
local(b) == b.variant = "Local"

\* Binary::name
name(b) == b.name

\* Binary::version
version(b) ==
    IF b.variant = "Local" THEN None
    ELSE CASE b.source.kind = "Git" -> b.source.reference
           [] b.source.kind = "ReleaseArchive" -> b.source.tag
           [] b.source.kind = "SourceCodeArchive" -> b.source.reference
           [] b.source.kind \in {"Archive", "Url"} -> None

\* path() forgetting the version: every version shares cache/{name}.
path_ignoring_version(b) ==
    IF b.variant = "Local" THEN b.path ELSE join(b.cache, b.name)

\* path() taking a release archive's version from latest instead of tag.
path_by_latest(b) ==
    IF b.variant = "Local" THEN b.path
    ELSE LET v == CASE b.source.kind = "Git" -> b.source.reference
                    [] b.source.kind = "ReleaseArchive" -> b.source.latest
                    [] b.source.kind = "SourceCodeArchive" -> b.source.reference
                    [] b.source.kind \in {"Archive", "Url"} -> None
         IN  IF is_some(v)
             THEN join(b.cache, format_name_version(b.name, unwrap(v)))
             ELSE join(b.cache, b.name)

\* Binary::path
path(b) ==
    IF b.variant = "Local" THEN b.path
    ELSE LET v == CASE b.source.kind = "Git" -> b.source.reference
                    [] b.source.kind = "ReleaseArchive" -> b.source.tag
                    [] b.source.kind = "SourceCodeArchive" -> b.source.reference
                    [] b.source.kind \in {"Archive", "Url"} -> None
         IN  IF is_some(v)
             THEN join(b.cache, format_name_version(b.name, unwrap(v)))
             ELSE join(b.cache, b.name)

\* Binary::exists: whether a file is present at path().
exists(b, files) == path(b) \in files

\* stale() that also asks for a tag to be present.
stale_requires_tag(b) ==
    /\ is_release_archive(b)
    /\ is_some(b.source.latest)
    /\ is_some(b.source.tag)
    /\ b.source.tag # b.source.latest

\* Binary::stale
stale(b) ==
    IF ~is_release_archive(b) THEN FALSE
    ELSE IF is_some(b.source.latest)
         THEN b.source.tag # Some(unwrap(b.source.latest))
         ELSE FALSE

\* use_latest() that only fills in a missing tag.
use_latest_fill_missing(b) ==
    IF is_release_archive(b) /\ is_some(b.source.latest) /\ b.source.tag = None
    THEN [b EXCEPT !.source.tag = b.source.latest]
    ELSE b

\* use_latest() that copies latest into tag even when latest is None.
use_latest_unconditional(b) ==
    IF is_release_archive(b)
    THEN [b EXCEPT !.source.tag = b.source.latest]
    ELSE b

\* Binary::use_latest: the identity after the call.
use_latest(b) ==
    IF is_release_archive(b) /\ is_some(b.source.latest)
    THEN [b EXCEPT !.source.tag = Some(unwrap(b.source.latest))]
    ELSE b

(* ------------------------------- source ------------------------------- *)

\* Result<(), Error>
Ok == [ok |-> TRUE]

\* Error::MissingBinary(format!("The {path:?} binary cannot be sourced
\* automatically."))
MissingBinary(p) ==
    [ok |-> FALSE, error |-> "MissingBinary",
     message |-> <<"The ", p, " binary cannot be sourced automatically.">>]

\* An error reported by a collaborator, handed on as it is.
CollaboratorError == [ok |-> FALSE, error |-> "Collaborator"]

\* from_local_package(manifest, name, release, status, verbose): the local
\* builder. It either builds the artifact or fails, and a failed build may
\* leave the artifact behind or not.
from_local_package(b, files, release, verbose) ==
    { [ret |-> Ok, invoked |-> "from_local_package", fs |-> files \cup {b.path}] }
    \cup { [ret |-> CollaboratorError, invoked |-> "from_local_package", fs |-> f] :
             f \in {files, files \cup {b.path}} }

\* Source::source(cache, release, status, verbose): the fetcher of the
\* source's kind. On success the artifact is in the cache under the name
\* path() gives; a failed fetch may leave a file there or not.
source_source(b, files, release, verbose) ==
    { [ret |-> Ok, invoked |-> b.source.kind, fs |-> files \cup {path(b)}] }
    \cup { [ret |-> CollaboratorError, invoked |-> b.source.kind, fs |-> f] :
             f \in {files, files \cup {path(b)}} }

\* source() that is content with a local binary already in place.
source_existing_ok(b, files, release, verbose) ==
    IF b.variant = "Local" THEN
        IF b.manifest = None
        THEN IF b.path \in files
             THEN { [ret |-> Ok, invoked |-> "none", fs |-> files] }
             ELSE { [ret |-> MissingBinary(b.path), invoked |-> "none", fs |-> files] }
        ELSE from_local_package(b, files, release, verbose)
    ELSE source_source(b, files, release, verbose)

\* Binary::source: the possible outcomes (result, collaborator invoked,
\* files afterwards) of sourcing b.
source(b, files, release, verbose) ==
    IF b.variant = "Local" THEN
        IF b.manifest = None
        THEN { [ret |-> MissingBinary(b.path), invoked |-> "none", fs |-> files] }
        ELSE from_local_package(b, files, release, verbose)
    ELSE source_source(b, files, release, verbose)

(* --------------------------- identities drawn -------------------------- *)

Pop == <<"p", "o", "p">>

PopV1 == <<"p", "o", "p", "-", "v", "1">>

Node == <<"n", "o", "d", "e">>

V1 == <<"v", "1">>

V2 == <<"v", "2">>

Names == {Pop, PopV1, Node}

Caches == {<<"/", "c">>, <<"/", "d">>}

LocalPaths == {<<"/", "b", "/", "p", "o", "p">>}

Manifests == {None, Some(<<"/", "b", "/", "t", "o", "m", "l">>)}

\* Option<String> of a reference, tag or latest.
OptVersions == {None, Some(V1), Some(V2)}

Sources ==
    {Git(r) : r \in OptVersions}
    \cup {ReleaseArchive(t, l) : t \in OptVersions, l \in OptVersions}
    \cup {SourceCodeArchive(r) : r \in OptVersions}
    \cup {Archive, Url}

LocalBinaries == {Local(n, p, m) : n \in Names, p \in LocalPaths, m \in Manifests}

SourceBinaries == {Source(n, s, c) : n \in Names, s \in Sources, c \in Caches}

Binaries == LocalBinaries \cup SourceBinaries

(* ------------------------------ state --------------------------------- *)

\* Variables a specification does not use keep these values.
NoBinary == [variant |-> "Unset"]

NoInput == [op |-> "none"]

NoOutput == [op |-> "none"]

Idle == [op |-> "init"]

(* -------------------- specification of the identity -------------------- *)

Init ==
    /\ binary \in Binaries
    /\ fs \in SUBSET {path(binary)}
    /\ last = Idle
    /\ input = NoInput
    /\ output = NoOutput

\* binary.use_latest()
UseLatest ==
    /\ binary' = use_latest(binary)
    /\ last' = [op |-> "use_latest", pre |-> binary, again |-> last.op = "use_latest"]
    /\ UNCHANGED <<fs, input, output>>

\* source() that moves a release archive on to its latest version once it
\* has fetched it.
SourceAdoptingLatest ==
    \E release \in BOOLEAN, verbose \in BOOLEAN :
        \E o \in source(binary, fs, release, verbose) :
            /\ fs' = o.fs
            /\ binary' = IF o.ret = Ok THEN use_latest(binary) ELSE binary
            /\ last' = [op |-> "source", pre |-> binary, prefs |-> fs,
                        release |-> release, verbose |-> verbose,
                        ret |-> o.ret, invoked |-> o.invoked]
            /\ UNCHANGED <<input, output>>

\* binary.source(release, status, verbose).await
SourceBinary ==
    \E release \in BOOLEAN, verbose \in BOOLEAN :
        \E o \in source(binary, fs, release, verbose) :
            /\ fs' = o.fs
            /\ last' = [op |-> "source", pre |-> binary, prefs |-> fs,
                        release |-> release, verbose |-> verbose,
                        ret |-> o.ret, invoked |-> o.invoked]
            /\ UNCHANGED <<binary, input, output>>

\* binary.stale()
Stale ==
    /\ last' = [op |-> "stale", ret |-> stale(binary)]
    /\ UNCHANGED <<binary, fs, input, output>>

\* binary.path()
Path ==
    /\ last' = [op |-> "path", ret |-> path(binary)]
    /\ UNCHANGED <<binary, fs, input, output>>

\* binary.version()
Version ==
    /\ last' = [op |-> "version", ret |-> version(binary)]
    /\ UNCHANGED <<binary, fs, input, output>>

\* binary.latest()
Latest ==
    /\ last' = [op |-> "latest", ret |-> latest(binary)]
    /\ UNCHANGED <<binary, fs, input, output>>

\* binary.exists()
Exists ==
    /\ last' = [op |-> "exists", ret |-> exists(binary, fs)]
    /\ UNCHANGED <<binary, fs, input, output>>

Next ==
    \/ UseLatest
    \/ SourceBinary
    \/ Stale
    \/ Path
    \/ Version
    \/ Latest
    \/ Exists

Spec == Init /\ [][Next]_vars

(* ------------------------- claims on the identity ---------------------- *)

has_hyphen(s) == \E i \in 1..Len(s) : s[i] = "-"

\* C4: two Source identities in the same cache directory whose (name,
\* version) pairs differ never have the same path().
C4_AnyNamesDistinctPaths ==
    (last.op = "path" /\ binary.variant = "Source") =>
        \A o \in SourceBinaries :
            (o.cache = binary.cache /\ <<name(o), version(o)>> # <<name(binary), version(binary)>>)
                => last.ret # path(o)

\* What path() does guarantee: the paths differ when the two names are equal
\* or neither name contains '-'. A name with '-' in it can spell the same
\* file name as a shorter name with a version: pop-v1 without a version and
\* pop at version v1 are both cache/pop-v1.
PlainNamesDistinctPaths ==
    (last.op = "path" /\ binary.variant = "Source") =>
        \A o \in SourceBinaries :
            ( /\ o.cache = binary.cache
              /\ <<name(o), version(o)>> # <<name(binary), version(binary)>>
              /\ \/ name(o) = name(binary)
                 \/ ~has_hyphen(name(o)) /\ ~has_hyphen(name(binary)) )
                => last.ret # path(o)

\* C5 as stated: stale() is true if and only if the identity is a Source
\* over ReleaseArchive with both tag and latest present and unequal.
C5_StaleNeedsTag ==
    last.op = "stale" =>
        (last.ret = TRUE <=>
            /\ binary.variant = "Source"
            /\ binary.source.kind = "ReleaseArchive"
            /\ binary.source.tag # None
            /\ binary.source.latest # None
            /\ binary.source.tag # binary.source.latest)

\* C5 amended: stale() is true if and only if the identity is a Source over
\* ReleaseArchive with latest present and tag different from it; an absent
\* tag differs from every latest. It is false in every other case.
C5_Stale ==
    last.op = "stale" =>
        (last.ret = TRUE <=>
            /\ binary.variant = "Source"
            /\ binary.source.kind = "ReleaseArchive"
            /\ binary.source.latest # None
            /\ binary.source.tag # binary.source.latest)

\* stale() answered true for a release archive without a tag.
C5_Witness ==
    /\ last.op = "stale"
    /\ last.ret = TRUE
    /\ binary.source.kind = "ReleaseArchive"
    /\ binary.source.tag = None
    /\ binary.source.latest = Some(V2)

\* C6: on a Source over ReleaseArchive with latest present, use_latest()
\* makes tag equal to latest and changes nothing else, so version() equals
\* latest() and stale() is false; a use_latest() that follows a use_latest()
\* leaves the identity as it found it.
C6_UseLatest ==
    ( /\ last.op = "use_latest"
      /\ last.pre.variant = "Source"
      /\ last.pre.source.kind = "ReleaseArchive"
      /\ last.pre.source.latest # None ) =>
        /\ binary = [last.pre EXCEPT !.source.tag = last.pre.source.latest]
        /\ binary.source.tag = binary.source.latest
        /\ version(binary) = latest(binary)
        /\ version(binary) = last.pre.source.latest
        /\ ~stale(binary)
        /\ last.again => binary = last.pre

\* A second use_latest() in a row, on a release archive with latest v2.
C6_Witness ==
    /\ last.op = "use_latest"
    /\ last.again
    /\ is_release_archive(binary)
    /\ binary.source.tag = Some(V2)
    /\ binary.source.latest = Some(V2)

\* C7: on a Local identity, on a Source over Git, SourceCodeArchive, Archive
\* or Url, and on a ReleaseArchive without latest, use_latest() leaves the
\* whole identity unchanged, and stale() is false before and after.
C7_UseLatestNoOp ==
    ( /\ last.op = "use_latest"
      /\ \/ last.pre.variant = "Local"
         \/ last.pre.source.kind # "ReleaseArchive"
         \/ last.pre.source.latest = None ) =>
        /\ binary = last.pre
        /\ version(binary) = version(last.pre)
        /\ path(binary) = path(last.pre)
        /\ ~stale(last.pre)
        /\ ~stale(binary)

\* use_latest() on a release archive with a tag and no latest.
C7_Witness ==
    /\ last.op = "use_latest"
    /\ is_release_archive(last.pre)
    /\ last.pre.source.tag = Some(V1)
    /\ last.pre.source.latest = None

\* The version reference of each kind of source, as the data model gives it.
version_reference(b) ==
    IF b.source.kind \in {"Git", "SourceCodeArchive"} THEN b.source.reference
    ELSE IF b.source.kind = "ReleaseArchive" THEN b.source.tag
    ELSE None

\* C8: path() is the stored path for Local; for Source it is cache joined
\* with {name} exactly when version() is absent and cache joined with
\* {name}-{version()} otherwise, version() being the reference of Git and
\* SourceCodeArchive, the tag of ReleaseArchive and absent for Archive and
\* Url.
C8_PathFollowsVersion ==
    /\ (last.op = "path" /\ binary.variant = "Local") => last.ret = binary.path
    /\ (last.op = "path" /\ binary.variant = "Source") =>
           /\ version(binary) = version_reference(binary)
           /\ version(binary) = None =>
                  last.ret = binary.cache \o <<"/">> \o binary.name
           /\ version(binary) # None =>
                  last.ret = binary.cache \o <<"/">> \o binary.name \o <<"-">>
                                 \o version(binary)[1]
    /\ (last.op = "version" /\ binary.variant = "Source") =>
           last.ret = version_reference(binary)
    /\ (last.op = "version" /\ binary.variant = "Local") => last.ret = None

\* path() of a release archive whose tag and latest differ.
C8_Witness ==
    /\ last.op = "path"
    /\ is_release_archive(binary)
    /\ binary.source.tag = Some(V1)
    /\ binary.source.latest = Some(V2)
    /\ last.ret = binary.cache \o <<"/">> \o binary.name \o <<"-">> \o V1

\* C9: source() on a Local identity without a manifest returns the
\* MissingBinary error naming the path, whatever release and verbose are and
\* whether or not the file exists, invokes no collaborator and leaves the
\* identity and the files unchanged.
C9_LocalWithoutManifest ==
    ( /\ last.op = "source"
      /\ last.pre.variant = "Local"
      /\ last.pre.manifest = None ) =>
        /\ last.ret.ok = FALSE
        /\ last.ret.error = "MissingBinary"
        /\ last.ret.message[2] = last.pre.path
        /\ last.invoked = "none"
        /\ binary = last.pre
        /\ fs = last.prefs

\* source() on a local binary without a manifest whose file exists.
C9_Witness ==
    /\ last.op = "source"
    /\ last.pre.variant = "Local"
    /\ last.pre.manifest = None
    /\ last.pre.path \in last.prefs
    /\ last.release /\ last.verbose
    /\ last.ret.ok = FALSE

\* The cache directory of an identity, if it has one.
cache_directory(b) == IF b.variant = "Source" THEN Some(b.cache) ELSE None

\* C12: no call of use_latest() or source() changes name(), latest(),
\* local() or the cache directory; a source() call, successful or failed,
\* changes neither version() nor stale() nor path(), whatever it does to the
\* files; a step that changes version() or path() is a use_latest() call.
C12_Frame ==
    [][ /\ name(binary') = name(binary)
        /\ latest(binary') = latest(binary)
        /\ local(binary') = local(binary)
        /\ cache_directory(binary') = cache_directory(binary)
        /\ last'.op = "source" =>
               /\ version(binary') = version(binary)
               /\ stale(binary') = stale(binary)
               /\ path(binary') = path(binary)
        /\ (version(binary') # version(binary) \/ path(binary') # path(binary)) =>
               last'.op = "use_latest" ]_vars

\* A stale release archive after a successful source() that put its file in
\* the cache.
C12_Witness ==
    /\ last.op = "source"
    /\ last.ret = Ok
    /\ is_release_archive(binary)
    /\ binary.source.tag = Some(V1)
    /\ binary.source.latest = Some(V2)
    /\ stale(binary)
    /\ path(binary) \notin last.prefs
    /\ path(binary) \in fs

(* ---------------- specification of compare_versions ------------------- *)

InitCmp ==
    /\ binary = NoBinary
    /\ fs = {}
    /\ last = Idle
    /\ input \in [op : {"compare_versions"},
                  a : CmpVersions, b : CmpVersions, c : CmpVersions]
    /\ output = NoOutput

\* compare_versions applied to the pairs of the drawn strings.
CompareVersions ==
    /\ input.op = "compare_versions"
    /\ output = NoOutput
    /\ output' = [op |-> "compare_versions",
                  aa |-> compare_versions(input.a, input.a),
                  ab |-> compare_versions(input.a, input.b),
                  ba |-> compare_versions(input.b, input.a),
                  bc |-> compare_versions(input.b, input.c),
                  ac |-> compare_versions(input.a, input.c)]
    /\ UNCHANGED <<binary, fs, last, input>>

NextCmp == CompareVersions

SpecCmp == InitCmp /\ [][NextCmp]_vars

\* C10: compare_versions ranks consistently: comparing a string with itself
\* is Equal, swapping the arguments reverses the result, and a <= b and
\* b <= c give a <= c, across all three families of version strings.
C10_TotalOrder ==
    output.op = "compare_versions" =>
        /\ output.aa = "Equal"
        /\ output.ab = reverse(output.ba)
        /\ (output.ab # "Greater" /\ output.bc # "Greater") => output.ac # "Greater"

\* A chain through the three families: unparseable < semantic < calendar.
C10_Witness ==
    /\ output.op = "compare_versions"
    /\ input.a = <<"m", "a", "i", "n">>
    /\ input.b = V_1_13_0
    /\ input.c = Stable2409
    /\ output.ab = "Less" /\ output.bc = "Less" /\ output.ac = "Less"

(* ------------- the version ordering as the design states it ----------- *)

\* The positions of the dots of a string.
ref_dots(s) == {i \in 1..Len(s) : s[i] = "."}

\* The text before the first dot (all of it when there is none).
ref_first_segment(s) ==
    IF ref_dots(s) = {} THEN s
    ELSE SubSeq(s, 1, (CHOOSE d \in ref_dots(s) : \A e \in ref_dots(s) : d <= e) - 1)

\* The text between the first dot and the second (or the end); absent when
\* there is no dot.
ref_second_segment(s) ==
    IF ref_dots(s) = {} THEN None
    ELSE LET d1 == CHOOSE d \in ref_dots(s) : \A e \in ref_dots(s) : d <= e
             later == {d \in ref_dots(s) : d > d1}
             stop == IF later = {} THEN Len(s) + 1
                     ELSE CHOOSE d \in later : \A e \in later : d <= e
         IN  Some(SubSeq(s, d1 + 1, stop - 1))

\* The integer a text spells (decimal digits after an optional '+'), absent
\* when it spells none; with fits32, absent as well when it is above
\* 4294967295.
ref_integer(text, fits32) ==
    LET digits == IF text # <<>> /\ text[1] = "+" THEN SubSeq(text, 2, Len(text)) ELSE text
    IN  IF digits = <<>> \/ \E i \in 1..Len(digits) : ~IsDigit(digits[i]) THEN None
        ELSE IF fits32 /\ num_cmp(strip_zeros(digits), U32Max) = "Greater" THEN None
        ELSE Some(strip_zeros(digits))

\* (major, minor) of a version string.
ref_parse(v, fits32) ==
    IF v # <<>> /\ v[1] = "v" THEN
        LET rest == SubSeq(v, 2, Len(v))
            second == ref_second_segment(rest)
        IN  <<ref_integer(ref_first_segment(rest), fits32),
              IF second = None THEN None ELSE ref_integer(second[1], fits32)>>
    ELSE IF Len(v) >= Len(PolkadotStable) /\ SubSeq(v, 1, Len(PolkadotStable)) = PolkadotStable THEN
        LET n == ref_integer(SubSeq(v, Len(PolkadotStable) + 1, Len(v)), fits32)
        IN  IF n = None THEN <<None, None>>
            ELSE <<Some(div100(n[1])), Some(mod100(n[1]))>>
    ELSE <<None, None>>

\* The order of two version strings: by major when both have one and they
\* differ, by minor (absent below any integer) when the majors are equal, a
\* string with a major above one without, and lexicographic when neither
\* has a major.
ref_compare(a, b, fits32) ==
    LET ka == ref_parse(a, fits32)
        kb == ref_parse(b, fits32)
    IN  CASE ka[1] # None /\ kb[1] # None /\ ka[1] # kb[1] -> num_cmp(ka[1][1], kb[1][1])
          [] ka[1] # None /\ kb[1] # None /\ ka[1] = kb[1] ->
                 IF ka[2] = kb[2] THEN "Equal"
                 ELSE IF ka[2] = None THEN "Less"
                 ELSE IF kb[2] = None THEN "Greater"
                 ELSE num_cmp(ka[2][1], kb[2][1])
          [] ka[1] # None /\ kb[1] = None -> "Greater"
          [] ka[1] = None /\ kb[1] # None -> "Less"
          [] ka[1] = None /\ kb[1] = None -> str_cmp(a, b)

Overflowing == <<"v", "4", "2", "9", "4", "9", "6", "7", "2", "9", "6", ".", "1">>

\* C11 as stated: compare_versions(a, b) is the order the design states,
\* every dot-segment and every calendar number that spells an integer being
\* taken as that integer; polkadot-stable2409 is Greater than v1.13.0.
C11_MatchesAnyInteger ==
    output.op = "compare_versions" =>
        /\ output.ab = ref_compare(input.a, input.b, FALSE)
        /\ output.ba = ref_compare(input.b, input.a, FALSE)
        /\ output.bc = ref_compare(input.b, input.c, FALSE)
        /\ output.ac = ref_compare(input.a, input.c, FALSE)

\* C11 amended: compare_versions(a, b) is the order the design states, the
\* integers being unsigned 32-bit ones: a dot-segment or calendar number
\* above 4294967295 is absent like a non-numeric one; polkadot-stable2409
\* is Greater than v1.13.0.
C11_MatchesReference ==
    output.op = "compare_versions" =>
        /\ output.ab = ref_compare(input.a, input.b, TRUE)
        /\ output.ba = ref_compare(input.b, input.a, TRUE)
        /\ output.bc = ref_compare(input.b, input.c, TRUE)
        /\ output.ac = ref_compare(input.a, input.c, TRUE)
        /\ (input.a = Stable2409 /\ input.b = V_1_13_0) => output.ab = "Greater"

\* A calendar tag against a semantic tag, and a semantic tag whose major
\* does not fit 32 bits.
C11_Witness ==
    /\ output.op = "compare_versions"
    /\ input.a = Stable2409
    /\ input.b = V_1_13_0
    /\ input.c = Overflowing
    /\ output.ab = "Greater"
    /\ output.ba = "Less"
    /\ output.bc = "Greater"

(* ----------------- specification of resolve_version ------------------- *)

Polkadot == <<"p", "o", "l", "k", "a", "d", "o", "t">>

Main == <<"m", "a", "i", "n">>

ResolveNames == {Polkadot, Pop}

\* The versions an available list is made of: two that compare Equal, the
\* calendar-style family and an unparseable reference among them.
ResolveVersions == {Stable2409, V_1_13_0, V_1_13_1, V_1_12_0, Main}

\* A version asked for that is in no available list.
Unlisted == V_2

ResolveCache == <<"/", "c">>

\* The files that may be in the cache beforehand.
CacheCandidates ==
    { join(ResolveCache, format_name_version(Polkadot, V_1_12_0)),
      join(ResolveCache, format_name_version(Polkadot, V_1_13_1)),
      join(ResolveCache, format_name_version(Polkadot, Stable2409)),
      join(ResolveCache, format_name_version(Pop, Unlisted)) }

InitResolve ==
    /\ binary = NoBinary
    /\ fs \in SUBSET CacheCandidates
    /\ last = Idle
    /\ input \in [op : {"resolve_version"},
                  name : ResolveNames,
                  specified : {None, Some(V_1_12_0), Some(Unlisted)},
                  available : UNION {[1..k -> ResolveVersions] : k \in 0..MaxAvail},
                  cache : {ResolveCache}]
    /\ output = NoOutput

\* Binary::resolve_version(name, specified, &available, cache)
ResolveVersion ==
    /\ input.op = "resolve_version"
    /\ output = NoOutput
    /\ output' = [op |-> "resolve_version",
                  ret |-> resolve_version(input.name, input.specified,
                                          input.available, input.cache, fs)]
    /\ UNCHANGED <<binary, fs, last, input>>

NextResolve == ResolveVersion

SpecResolve == InitResolve /\ [][NextResolve]_vars

\* The entries of the available list whose cache path exists.
cached_entries ==
    {i \in 1..Len(input.available) :
        input.cache \o <<"/">> \o input.name \o <<"-">> \o input.available[i] \in fs}

\* C1: a specified version is returned as it is, whatever the available
\* list and the cache hold.
C1_SpecifiedWins ==
    (output.op = "resolve_version" /\ input.specified # None) =>
        output.ret = input.specified

\* A specified version that is neither available nor cached, next to a
\* cached available one.
C1_Witness ==
    /\ output.op = "resolve_version"
    /\ input.name = Polkadot
    /\ input.specified = Some(Unlisted)
    /\ input.available = <<V_1_12_0, Stable2409>>
    /\ cached_entries = {1}
    /\ output.ret = Some(Unlisted)

\* C2: with no version specified and a cached entry in the available list,
\* the result is a cached entry and no cached entry compares Greater than it.
C2_CachedPreferred ==
    (output.op = "resolve_version" /\ input.specified = None /\ cached_entries # {}) =>
        \E i \in cached_entries :
            /\ output.ret = Some(input.available[i])
            /\ \A j \in cached_entries :
                   compare_versions(input.available[j], input.available[i]) # "Greater"

\* A cached lower-ranked version is returned although a higher-ranked one
\* is available.
C2_Witness ==
    /\ output.op = "resolve_version"
    /\ input.name = Polkadot
    /\ input.specified = None
    /\ input.available = <<Stable2409, V_1_13_0, V_1_12_0>>
    /\ cached_entries = {3}
    /\ output.ret = Some(V_1_12_0)

\* The top-ranked version is returned when it and a lower one are cached.
C2_WitnessBothCached ==
    /\ output.op = "resolve_version"
    /\ input.specified = None
    /\ input.available = <<V_1_12_0, Main, Stable2409>>
    /\ cached_entries = {1, 3}
    /\ output.ret = Some(Stable2409)

\* C3: with no version specified and nothing of the available list cached,
\* the result is the earliest entry of the list that no entry compares
\* Greater than, and it is None exactly when the list is empty.
C3_HighestRanked ==
    (output.op = "resolve_version" /\ input.specified = None /\ cached_entries = {}) =>
        /\ output.ret = None <=> input.available = <<>>
        /\ input.available # <<>> =>
               \E i \in 1..Len(input.available) :
                   /\ output.ret = Some(input.available[i])
                   /\ \A j \in 1..Len(input.available) :
                          compare_versions(input.available[j], input.available[i]) # "Greater"
                   /\ \A j \in 1..(i - 1) :
                          compare_versions(input.available[j], input.available[i]) = "Less"

\* Two top-ranked versions compare Equal and the earlier one is returned.
C3_Witness ==
    /\ output.op = "resolve_version"
    /\ input.specified = None
    /\ input.available = <<V_1_12_0, V_1_13_1, V_1_13_0>>
    /\ cached_entries = {}
    /\ output.ret = Some(V_1_13_1)

====
